---- MODULE Spec2Model ----
(***************************************************************************)
(* The snikket web portal's route handlers (snikket_web/admin.py and       *)
(* snikket_web/user.py) as a state machine over the remote backend they    *)
(* drive.  Every handler is a request that advances from one awaited       *)
(* remote call to the next; requests of several slots interleave at the    *)
(* awaits.  The `client` object the handlers call (snikket_web/infra.py,   *)
(* prosodyclient.py) is modelled from the specification's contracts.       *)
(***************************************************************************)
EXTENDS Integers, Sequences, FiniteSets, TLC

\* ------------------------------------------------------------- bounds
MaxReq == 2
MaxUsers == 2
MaxGroups == 2
MaxInvites == 2
MaxNames == 2
MaxPasswords == 2
MaxServed == 2

Req == 1..MaxReq
Localparts == 1..MaxUsers
GroupIds == 1..MaxGroups
InviteIds == 1..MaxInvites
\* circle names; 0 stands for the empty string
Names == 1..MaxNames
Passwords == 1..MaxPasswords

\* ------------------------------------------------- program constants
OneHour == 3600
TwelveHours == 43200
OneDay == 86400
OneWeek == 604800
FourWeeks == 2419200
ResetTtl == 86400

LifetimeChoices == {OneHour, TwelveHours, OneDay, OneWeek, FourWeeks}
TypeChoices == {"account", "group"}
AccessModelChoices == {"whitelist", "presence", "open"}
Facets == {"avatar", "vcard", "nickname"}

VARIABLES
    users,      \* the backend's user directory: a set of localparts
    groups,     \* the backend's circles: id -> record or NoGroup
    invites,    \* the backend's invites: id -> record or NoInvite
    created,    \* how many groups and invites the backend has allocated
    session,    \* the caller's session: cookie, server-side state, role
    account,    \* the acting account: password, nickname, avatar, facets
    req,        \* the requests in flight, one record per slot
    served      \* how many requests have been accepted so far

vars == <<users, groups, invites, created, session, account, req, served>>
backend == <<users, groups, invites, created>>

NoGroup == [live |-> FALSE, name |-> 0, members |-> {}]
NoInvite == [live |-> FALSE, kind |-> "none", ttl |-> 0, groups |-> <<>>,
             created_at |-> 0, localpart |-> 0]

\* --------------------------------------------------------- sessions
\* currentSession(requiredRole): the caller's session when present, valid
\* and of at least the required role.
CurrentSession(s, required) ==
    IF ~s.cookie \/ s.server # "valid" THEN "Unauthenticated"
    ELSE IF required = "admin" /\ s.role # "admin" THEN "Forbidden"
    ELSE "ok"

AdminRoutes == {"users", "delete_user", "debug_user",
                "create_password_reset_link", "invitations", "create_invite",
                "edit_invite", "circles", "create_circle", "edit_circle"}
UserRoutes == {"change_pw", "profile", "logout"}

\* The role each route's decorator asks for.
GuardOfEditCircleUser(route) ==
    IF route \in AdminRoutes \ {"edit_circle"} THEN "admin" ELSE "user"
GuardOf(route) == IF route \in AdminRoutes THEN "admin" ELSE "user"

\* ---------------------------------------------------------- requests
Idle == [route |-> "idle", method |-> "GET", pc |-> "idle",
         cred |-> [cookie |-> FALSE, server |-> "none", role |-> "user"],
         guard |-> "none", csrf |-> FALSE,
         arg |-> 0, act |-> {}, val |-> 0,
         name |-> 0, user_to_add |-> 0, circles |-> <<>>, lifetime |-> 0,
         type_ |-> "none",
         current |-> 0, new |-> 0, confirm |-> 0,
         nickname |-> 0, avatar |-> "absent", model |-> "none",
         calls |-> <<>>, via |-> {}, flashes |-> {}, errors |-> {},
         bound |-> {}, circle |-> NoGroup, snap |-> <<>>, link |-> 0,
         scoped |-> "none", tasks |-> [f \in Facets |-> "none"],
         outcome |-> "pending", view |-> "none", next |-> "none"]

Issued(q, call) == [q EXCEPT !.calls = Append(@, call)]
Called(q, call) == \E i \in 1..Len(q.calls) : q.calls[i] = call
LastCall(q) == IF q.calls = <<>> THEN "none" ELSE q.calls[Len(q.calls)]
Times(q, call) == Cardinality({i \in 1..Len(q.calls) : q.calls[i] = call})
Flash(q, msg) == [q EXCEPT !.flashes = @ \cup {msg}]
Finish(q, outcome, view) ==
    [q EXCEPT !.pc = "done", !.outcome = outcome, !.view = view]
Goto(q, pc) == [q EXCEPT !.pc = pc]
Raise(q, exc) == Finish(q, "raise", exc)

\* form.validate_on_submit(): a POST whose CSRF token and fields validate.
Submitted(q) == q.method = "POST" /\ q.csrf

\* The guard in front of a handler: resolve the session for the route's
\* role, then run the handler, redirect to the login page or answer 403.
GuardedForbiddenToLogin(q0, first) ==
    LET q == [q0 EXCEPT !.cred = session]
        res == CurrentSession(session, GuardOf(q.route))
    IN
    IF res = "ok" THEN [q EXCEPT !.pc = first, !.guard = "ok"]
    ELSE [Finish(q, "redirect", "login")
             EXCEPT !.guard = res, !.next = q.route]
Guarded(q0, first) ==
    LET q == [q0 EXCEPT !.cred = session]
        res == CurrentSession(session, GuardOf(q.route))
    IN
    IF res = "ok" THEN [q EXCEPT !.pc = first, !.guard = "ok"]
    ELSE IF res = "Unauthenticated"
         THEN [Finish(q, "redirect", "login")
                  EXCEPT !.guard = "Unauthenticated", !.next = q.route]
         ELSE [Finish(q, "abort", "403") EXCEPT !.guard = "Forbidden"]

Begin(r, q, first) ==
    /\ req[r].pc = "idle"
    /\ req' = [req EXCEPT ![r] = Guarded(q, first)]
    /\ UNCHANGED <<backend, session, account>>

\* The response has been sent; the slot takes the next request.
Recycle(r) ==
    /\ req[r].pc = "done"
    /\ \A f \in Facets : req[r].tasks[f] # "pending"
    /\ req' = [req EXCEPT ![r] = Idle]
    /\ UNCHANGED <<backend, session, account>>

\* ------------------------------------------------------------ sorting
\* sorted(xs, key=k, reverse=rev) over a sequence of [key, item] pairs: a
\* stable sort, as Python's sorted is (equal keys keep the input's order,
\* also with reverse=True).
RECURSIVE Insert(_, _, _)
Insert(x, s, rev) ==
    IF s = <<>> THEN <<x>>
    ELSE IF (IF rev THEN Head(s).key < x.key ELSE x.key < Head(s).key)
         THEN <<x>> \o s
         ELSE <<Head(s)>> \o Insert(x, Tail(s), rev)

RECURSIVE Sorted(_, _)
Sorted(s, rev) ==
    IF s = <<>> THEN <<>>
    ELSE Insert(s[Len(s)], Sorted(SubSeq(s, 1, Len(s) - 1), rev), rev)

Items(s) == [i \in 1..Len(s) |-> s[i].item]

\* ------------------------------------------------------------ backend
\* The orders in which the backend may return the records of a set.
Perms(S) ==
    {p \in [1..Cardinality(S) -> S] : \A i, j \in 1..Cardinality(S) :
                                         i # j => p[i] # p[j]}

\* How a remote call can fail besides the backend's 404: an HTTP error
\* status (aiohttp.ClientResponseError), or a transport failure.
Faults == {"status", "transport"}
Results == {"ok"} \cup Faults

LiveGroups == {g \in GroupIds : groups[g].live}
LiveInvites == {i \in InviteIds : invites[i].live}
GroupInfo(g) == [id |-> g, name |-> groups[g].name, members |-> groups[g].members]
InviteInfo(i) == [id |-> i, kind |-> invites[i].kind, ttl |-> invites[i].ttl,
                  groups |-> invites[i].groups,
                  created_at |-> invites[i].created_at]

\* delete user: the backend drops the user with its memberships and its
\* password-reset invites.
UsersWithout(u) == users \ {u}
GroupsWithoutUser(u) ==
    [g \in GroupIds |-> [groups[g] EXCEPT !.members = @ \ {u}]]
InvitesWithoutUser(u) ==
    [i \in InviteIds |->
        IF invites[i].live /\ invites[i].localpart = u THEN NoInvite
        ELSE invites[i]]

\* ------------------------------------------------------------- users
\* await client.get_user_by_localpart(localpart), in no try block: a
\* failure, the 404 of an absent user included, leaves the handler.
UserLookupSwallowed(q, res, u, found) ==
    IF res # "ok" THEN Raise(q, res) ELSE found
UserLookup(q, res, u, found) ==
    IF res # "ok" THEN Raise(q, res)
    ELSE IF u \notin users THEN Raise(q, "NotFound")
    ELSE found

\* GET /admin/users
BeginUsers(r) ==
    Begin(r, [Idle EXCEPT !.route = "users"], "list_users")

UsersKey(order) == [i \in 1..Len(order) |-> [key |-> order[i], item |-> order[i]]]

UsersList(r) ==
    /\ req[r].route = "users" /\ req[r].pc = "list_users"
    /\ \E res \in Results, order \in Perms(users) :
         LET q == Issued(req[r], "list_users") IN
         req' = [req EXCEPT ![r] =
                    IF res # "ok" THEN Raise(q, res)
                    ELSE [Finish(q, "render", "admin_users.html")
                             EXCEPT !.snap = Items(Sorted(UsersKey(order), FALSE))]]
    /\ UNCHANGED <<backend, session, account>>

\* GET, POST /admin/user/<localpart>/delete
BeginDeleteUser(r) ==
    \E u \in Localparts, m \in {"GET", "POST"}, c \in BOOLEAN,
       a \in SUBSET {"action_delete"} :
        /\ m = "GET" => (~c /\ a = {})
        /\ Begin(r, [Idle EXCEPT !.route = "delete_user", !.arg = u,
                                 !.method = m, !.csrf = c, !.act = a],
                 "get_user")

DeleteUserAfterGet(q0) ==
    LET q == [q0 EXCEPT !.bound = @ \cup {"target_user_info"}] IN
    IF Submitted(q)
    THEN IF "action_delete" \in q.act THEN Goto(q, "delete_user")
         ELSE Finish(q, "redirect", ".users")
    ELSE Finish(q, "render", "admin_delete_user.html")

DeleteUserGet(r) ==
    /\ req[r].route = "delete_user" /\ req[r].pc = "get_user"
    /\ \E res \in Results :
         LET q == Issued(req[r], "get_user_by_localpart") IN
         req' = [req EXCEPT ![r] =
                    UserLookup(q, res, q.arg, DeleteUserAfterGet(q))]
    /\ UNCHANGED <<backend, session, account>>

DeleteUserDelete(r) ==
    /\ req[r].route = "delete_user" /\ req[r].pc = "delete_user"
    /\ \E res \in Results :
         LET q == Issued(req[r], "delete_user_by_localpart")
             ok == res = "ok" /\ q.arg \in users
         IN
         /\ req' = [req EXCEPT ![r] =
                      IF res # "ok" THEN Raise(q, res)
                      ELSE IF q.arg \notin users THEN Raise(q, "NotFound")
                      ELSE Finish(Flash(q, "User deleted"), "redirect", ".users")]
         /\ users' = IF ok THEN UsersWithout(q.arg) ELSE users
         /\ groups' = IF ok THEN GroupsWithoutUser(q.arg) ELSE groups
         /\ invites' = IF ok THEN InvitesWithoutUser(q.arg) ELSE invites
    /\ UNCHANGED <<created, session, account>>

\* GET /admin/user/<localpart>/debug
BeginDebugUser(r) ==
    \E u \in Localparts :
        Begin(r, [Idle EXCEPT !.route = "debug_user", !.arg = u], "get_user")

DebugUserGet(r) ==
    /\ req[r].route = "debug_user" /\ req[r].pc = "get_user"
    /\ \E res \in Results :
         LET q == Issued(req[r], "get_user_by_localpart") IN
         req' = [req EXCEPT ![r] =
                    UserLookup(q, res, q.arg,
                        [Goto(q, "debug_info")
                            EXCEPT !.bound = @ \cup {"target_user_info"}])]
    /\ UNCHANGED <<backend, session, account>>

DebugUserInfo(r) ==
    /\ req[r].route = "debug_user" /\ req[r].pc = "debug_info"
    /\ \E res \in Results :
         LET q == Issued(req[r], "get_user_debug_info") IN
         req' = [req EXCEPT ![r] =
                    IF res # "ok" THEN Raise(q, res)
                    ELSE IF q.arg \notin users THEN Raise(q, "NotFound")
                    ELSE Finish(q, "render", "admin_debug_user.html")]
    /\ UNCHANGED <<backend, session, account>>

\* ----------------------------------------------------------- circles
GroupsKey(order) ==
    [i \in 1..Len(order) |-> [key |-> groups[order[i]].name,
                              item |-> GroupInfo(order[i])]]

\* GET /admin/circles
BeginCircles(r) ==
    Begin(r, [Idle EXCEPT !.route = "circles"], "list_groups")

CirclesList(r) ==
    /\ req[r].route = "circles" /\ req[r].pc = "list_groups"
    /\ \E res \in Results, order \in Perms(LiveGroups) :
         LET q == Issued(req[r], "list_groups") IN
         req' = [req EXCEPT ![r] =
                    IF res # "ok" THEN Raise(q, res)
                    ELSE [Finish(q, "render", "admin_circles.html")
                             EXCEPT !.snap = Items(Sorted(GroupsKey(order), FALSE))]]
    /\ UNCHANGED <<backend, session, account>>

\* POST /admin/circle/-/new
\* The backend allocates a fresh id for every group it creates.
GroupsLeft ==
    MaxGroups - created.groups
        - Cardinality({r \in Req : req[r].route = "create_circle"
                                     /\ req[r].pc \notin {"idle", "done"}})

BeginCreateCircle(r) ==
    \E n \in {0} \cup Names, c \in BOOLEAN :
        /\ GroupsLeft > 0
        /\ Begin(r, [Idle EXCEPT !.route = "create_circle", !.method = "POST",
                                 !.csrf = c, !.name = n,
                                 !.act = {"action_create"}],
                 "validate")

\* CirclePost: name is required.
CirclePostValid(q) == Submitted(q) /\ q.name # 0

CreateCircleValidate(r) ==
    /\ req[r].route = "create_circle" /\ req[r].pc = "validate"
    /\ req' = [req EXCEPT ![r] =
                  IF CirclePostValid(@) THEN Goto(@, "create_group")
                  ELSE Finish(@, "render", "admin_create_circle.html")]
    /\ UNCHANGED <<backend, session, account>>

\* A creating call is awaited once, in no try block and no loop: its
\* failure, a timeout included, leaves the handler.
CreateFailedRetried(q, res) ==
    IF Times(q, LastCall(q)) < 2 THEN q ELSE Raise(q, res)
CreateFailed(q, res) == Raise(q, res)

CreateCircleCreate(r) ==
    /\ req[r].route = "create_circle" /\ req[r].pc = "create_group"
    /\ \E res \in Results :
         LET q == Issued(req[r], "create_group")
             id == created.groups + 1
         IN
         /\ req' = [req EXCEPT ![r] =
                      IF res # "ok" THEN CreateFailed(q, res)
                      ELSE [Finish(Flash(q, "Circle created"), "redirect",
                                   ".edit_circle") EXCEPT !.link = id]]
         /\ groups' = IF res = "ok"
                      THEN [groups EXCEPT ![id] = [live |-> TRUE, name |-> q.name,
                                                   members |-> {}]]
                      ELSE groups
         /\ created' = IF res = "ok" THEN [created EXCEPT !.groups = id]
                       ELSE created
    /\ UNCHANGED <<users, invites, session, account>>

\* ----------------------------------------------------------- invites
\* The invitations listing: no password-reset invites, newest first.
InvitesKey(order) ==
    [i \in 1..Len(order) |-> [key |-> invites[order[i]].created_at,
                              item |-> InviteInfo(order[i])]]
NotReset(s) == SelectSeq(s, LAMBDA x : x.item.kind # "password-reset")
InvitesListingOldestFirst(order) ==
    Items(Sorted(NotReset(InvitesKey(order)), FALSE))
InvitesListing(order) == Items(Sorted(NotReset(InvitesKey(order)), TRUE))

\* The backend allocates a fresh id for every invite it creates.
InvitesLeft ==
    MaxInvites - created.invites
        - Cardinality({r \in Req :
              /\ req[r].pc \notin {"idle", "done"}
              /\ \/ req[r].route = "create_invite"
                 \/ /\ req[r].route = "create_password_reset_link"
                    /\ "action_create" \in req[r].act})

NewInvite(kind, ttl, gs, localpart) ==
    [live |-> TRUE, kind |-> kind, ttl |-> ttl, groups |-> gs,
     created_at |-> created.invites + 1, localpart |-> localpart]

\* GET, POST /admin/invitations
BeginInvitations(r) ==
    \E m \in {"GET", "POST"}, c \in BOOLEAN, v \in {0} \cup InviteIds :
        /\ m = "GET" => (~c /\ v = 0)
        /\ Begin(r, [Idle EXCEPT !.route = "invitations", !.method = m,
                                 !.csrf = c, !.val = v],
                 "list_invites")

InvitationsListInvites(r) ==
    /\ req[r].route = "invitations" /\ req[r].pc = "list_invites"
    /\ \E res \in Results, order \in Perms(LiveInvites) :
         LET q == Issued(req[r], "list_invites") IN
         req' = [req EXCEPT ![r] =
                    IF res # "ok" THEN Raise(q, res)
                    ELSE [Goto(q, "list_groups")
                             EXCEPT !.snap = InvitesListing(order)]]
    /\ UNCHANGED <<backend, session, account>>

InvitationsAfterLists(q) ==
    IF Submitted(q)
    THEN IF q.val # 0 THEN Goto(q, "delete_invite")
         ELSE Finish(q, "redirect", ".invitations")
    ELSE Finish(q, "render", "admin_invites.html")

InvitationsListGroups(r) ==
    /\ req[r].route = "invitations" /\ req[r].pc = "list_groups"
    /\ \E res \in Results :
         LET q == Issued(req[r], "list_groups") IN
         req' = [req EXCEPT ![r] =
                    IF res # "ok" THEN Raise(q, res)
                    ELSE InvitationsAfterLists(q)]
    /\ UNCHANGED <<backend, session, account>>

\* What a handler does with the answer to client.delete_invite(id).
RevokeOutcome(q, res, id, done) ==
    IF res # "ok" THEN Raise(q, res)
    ELSE IF ~invites[id].live THEN Raise(q, "NotFound")
    ELSE done

InvitesAfterDelete(res, id) ==
    IF res = "ok" /\ invites[id].live THEN [invites EXCEPT ![id] = NoInvite]
    ELSE invites

InvitationsRevoke(r) ==
    /\ req[r].route = "invitations" /\ req[r].pc = "delete_invite"
    /\ \E res \in Results :
         LET q == Issued(req[r], "delete_invite") IN
         /\ req' = [req EXCEPT ![r] =
                      RevokeOutcome(q, res, q.val,
                                    Finish(q, "redirect", ".invitations"))]
         /\ invites' = InvitesAfterDelete(res, req[r].val)
    /\ UNCHANGED <<users, groups, created, session, account>>

\* POST /admin/invitation/-/new
LifetimeInputs == {OneHour, OneDay, 0}
TypeInputs == TypeChoices \cup {"none"}

BeginCreateInvite(r) ==
    \E c \in BOOLEAN, t \in TypeInputs, l \in LifetimeInputs,
       cs \in {<<>>} \cup {<<g>> : g \in GroupIds} :
        /\ InvitesLeft > 0
        /\ Begin(r, [Idle EXCEPT !.route = "create_invite", !.method = "POST",
                                 !.csrf = c, !.type_ = t, !.lifetime = l,
                                 !.circles = cs,
                                 !.act = {"action_create_invite"}],
                 "list_groups")

\* InvitePost's validators: circles is required (InputRequired) and each
\* value is one of the choices; lifetime and type_ are one of theirs.
CirclesOptional(q) == TRUE
CirclesRequired(q) == q.circles # <<>>
InvitePostErrors(q, choices) ==
    (IF CirclesRequired(q) /\ \A i \in 1..Len(q.circles) : q.circles[i] \in choices
     THEN {} ELSE {"circles"})
    \cup (IF q.lifetime \in LifetimeChoices THEN {} ELSE {"lifetime"})
    \cup (IF q.type_ \in TypeChoices THEN {} ELSE {"type_"})

CreateInviteAfterList(q, choices) ==
    IF Submitted(q) /\ InvitePostErrors(q, choices) = {}
    THEN Goto(q, "create_invite")
    ELSE [Finish(q, "render", "admin_create_invite.html")
             EXCEPT !.errors = IF q.method = "POST"
                               THEN InvitePostErrors(q, choices) ELSE {}]

CreateInviteListGroups(r) ==
    /\ req[r].route = "create_invite" /\ req[r].pc = "list_groups"
    /\ \E res \in Results :
         LET q == Issued(req[r], "list_groups") IN
         req' = [req EXCEPT ![r] =
                    IF res # "ok" THEN Raise(q, res)
                    ELSE CreateInviteAfterList(q, LiveGroups)]
    /\ UNCHANGED <<backend, session, account>>

CreateCallSwapped(q) ==
    IF q.type_ = "group" THEN "create_account_invite" ELSE "create_group_invite"
CreateCall(q) ==
    IF q.type_ = "group" THEN "create_group_invite" ELSE "create_account_invite"

\* The kind of invite each creating call of the client makes.
KindOf(call) ==
    IF call = "create_group_invite" THEN "group"
    ELSE IF call = "create_account_invite" THEN "account"
    ELSE "password-reset"

CreateInviteCreate(r) ==
    /\ req[r].route = "create_invite" /\ req[r].pc = "create_invite"
    /\ \E res0 \in Results :
         LET q == Issued(req[r], CreateCall(req[r]))
             \* the backend refuses an invite to a circle that is gone
             res == IF res0 = "ok" /\ \E i \in 1..Len(q.circles) :
                                         q.circles[i] \notin LiveGroups
                    THEN "status" ELSE res0
             id == created.invites + 1
         IN
         /\ req' = [req EXCEPT ![r] =
                      IF res # "ok" THEN CreateFailed(q, res)
                      ELSE [Finish(Flash(q, "Invitation created"), "redirect",
                                   ".edit_invite") EXCEPT !.link = id]]
         /\ invites' = IF res = "ok"
                       THEN [invites EXCEPT ![id] =
                                NewInvite(KindOf(CreateCall(q)), q.lifetime,
                                          q.circles, 0)]
                       ELSE invites
         /\ created' = IF res = "ok" THEN [created EXCEPT !.invites = id]
                       ELSE created
    /\ UNCHANGED <<users, groups, session, account>>

\* GET, POST /admin/invitation/<id_>
BeginEditInvite(r) ==
    \E i \in InviteIds, m \in {"GET", "POST"}, c \in BOOLEAN,
       a \in SUBSET {"action_revoke"} :
        /\ m = "GET" => (~c /\ a = {})
        /\ Begin(r, [Idle EXCEPT !.route = "edit_invite", !.arg = i,
                                 !.method = m, !.csrf = c, !.act = a],
                 "get_invite")

\* try: get_invite_by_id; except ClientResponseError: only status 404
\* returns; the clause has no raise for the other statuses.
EditInviteAfterGet(q, res) ==
    IF res = "transport" THEN Raise(q, res)
    ELSE IF res = "status" THEN Goto(q, "list_groups")
    ELSE IF ~invites[q.arg].live
         THEN Finish(Flash(q, "No such invitation exists"), "redirect",
                     ".invitations")
    ELSE [Goto(q, "list_groups") EXCEPT !.bound = @ \cup {"invite_info"},
                                        !.snap = <<InviteInfo(q.arg)>>]

EditInviteGet(r) ==
    /\ req[r].route = "edit_invite" /\ req[r].pc = "get_invite"
    /\ \E res \in Results :
         req' = [req EXCEPT ![r] =
                    EditInviteAfterGet(Issued(@, "get_invite_by_id"), res)]
    /\ UNCHANGED <<backend, session, account>>

\* render_template reads invite_info: an unbound local raises.
EditInviteAfterList(q) ==
    IF Submitted(q)
    THEN IF "action_revoke" \in q.act THEN Goto(q, "delete_invite")
         ELSE Finish(q, "redirect", ".edit_invite")
    ELSE IF "invite_info" \in q.bound
         THEN Finish(q, "render", "admin_edit_invite.html")
         ELSE Raise(q, "UnboundLocalError")

EditInviteListGroups(r) ==
    /\ req[r].route = "edit_invite" /\ req[r].pc = "list_groups"
    /\ \E res \in Results :
         LET q == Issued(req[r], "list_groups") IN
         req' = [req EXCEPT ![r] =
                    IF res # "ok" THEN Raise(q, res)
                    ELSE EditInviteAfterList(q)]
    /\ UNCHANGED <<backend, session, account>>

EditInviteRevoke(r) ==
    /\ req[r].route = "edit_invite" /\ req[r].pc = "delete_invite"
    /\ \E res \in Results :
         LET q == Issued(req[r], "delete_invite") IN
         /\ req' = [req EXCEPT ![r] =
                      RevokeOutcome(q, res, q.arg,
                                    Finish(Flash(q, "Invitation revoked"),
                                           "redirect", ".invitations"))]
         /\ invites' = InvitesAfterDelete(res, req[r].arg)
    /\ UNCHANGED <<users, groups, created, session, account>>

\* POST /admin/users/password-reset/-
BeginPasswordReset(r) ==
    \E c \in BOOLEAN, a \in SUBSET {"action_create", "action_revoke"},
       v \in Localparts :
        /\ "action_create" \in a => InvitesLeft > 0
        /\ Begin(r, [Idle EXCEPT !.route = "create_password_reset_link",
                                 !.method = "POST", !.csrf = c, !.act = a,
                                 !.val = IF a = {} THEN 0 ELSE v],
                 "validate")

PasswordResetDispatch(q) ==
    IF ~Submitted(q) THEN Finish(q, "abort", "400")
    ELSE IF "action_create" \in q.act THEN Goto(q, "reset_get_user")
    ELSE IF "action_revoke" \in q.act THEN Goto(q, "delete_invite")
    ELSE Raise(q, "UnboundLocalError")

PasswordResetValidate(r) ==
    /\ req[r].route = "create_password_reset_link" /\ req[r].pc = "validate"
    /\ req' = [req EXCEPT ![r] = PasswordResetDispatch(@)]
    /\ UNCHANGED <<backend, session, account>>

PasswordResetGetUser(r) ==
    /\ req[r].route = "create_password_reset_link"
    /\ req[r].pc = "reset_get_user"
    /\ \E res \in Results :
         LET q == Issued(req[r], "get_user_by_localpart") IN
         req' = [req EXCEPT ![r] =
                    UserLookup(q, res, q.val,
                        [Goto(q, "create_reset")
                            EXCEPT !.bound = @ \cup {"target_user_info"}])]
    /\ UNCHANGED <<backend, session, account>>

PasswordResetCreate(r) ==
    /\ req[r].route = "create_password_reset_link"
    /\ req[r].pc = "create_reset"
    /\ \E res0 \in Results :
         LET q == Issued(req[r], "create_password_reset_invite")
             res == IF res0 = "ok" /\ q.val \notin users THEN "status" ELSE res0
             id == created.invites + 1
         IN
         /\ req' = [req EXCEPT ![r] =
                      IF res # "ok" THEN CreateFailed(q, res)
                      ELSE [Finish(Flash(q, "Password reset link created"),
                                   "render", "admin_reset_user_password.html")
                               EXCEPT !.link = id,
                                      !.bound = @ \cup {"reset_link"}]]
         /\ invites' = IF res = "ok"
                       THEN [invites EXCEPT ![id] =
                                NewInvite("password-reset", ResetTtl, <<>>, q.val)]
                       ELSE invites
         /\ created' = IF res = "ok" THEN [created EXCEPT !.invites = id]
                       ELSE created
    /\ UNCHANGED <<users, groups, session, account>>

PasswordResetRevoke(r) ==
    /\ req[r].route = "create_password_reset_link"
    /\ req[r].pc = "delete_invite"
    /\ \E res \in Results :
         LET q == Issued(req[r], "delete_invite") IN
         /\ req' = [req EXCEPT ![r] =
                      RevokeOutcome(q, res, q.val,
                                    Finish(Flash(q, "Password reset link deleted"),
                                           "redirect", ".users"))]
         /\ invites' = InvitesAfterDelete(res, req[r].val)
    /\ UNCHANGED <<users, groups, created, session, account>>

\* ------------------------------------------------------- edit_circle
\* GET, POST /admin/circle/<id_>
CircleActions == {"action_save", "action_delete", "action_add_user",
                  "action_remove_user"}

\* async with client.authenticated_session() as session: the first
\* statement of the handler acquires the scoped session; leaving the block
\* releases it.
AuthenticatedSession(q) ==
    IF q.guard = "ok" THEN [q EXCEPT !.scoped = "held"] ELSE q
Leaked(q) == q
Released(q) ==
    IF q.scoped = "held" THEN [q EXCEPT !.scoped = "released"] ELSE q

BeginEditCircle(r) ==
    \E g \in GroupIds, m \in {"GET", "POST"}, c \in BOOLEAN,
       n \in {0} \cup Names, a \in {{}} \cup {{x} : x \in CircleActions},
       u \in Localparts :
        /\ m = "GET" => (~c /\ a = {} /\ n = 0)
        /\ (a \cap {"action_add_user", "action_remove_user"} = {}) => u = 1
        /\ req[r].pc = "idle"
        /\ req' = [req EXCEPT ![r] =
              AuthenticatedSession(
                  Guarded([Idle EXCEPT !.route = "edit_circle", !.arg = g,
                        !.method = m, !.csrf = c, !.name = n, !.act = a,
                        !.user_to_add = IF "action_add_user" \in a THEN u ELSE 0,
                        !.val = IF "action_remove_user" \in a THEN u ELSE 0],
                     "get_group"))]
        /\ UNCHANGED <<backend, session, account>>

\* async with client.authenticated_session() as session: get_group_by_id
\* is the first call of the block; a 404 leaves it by the redirect, any
\* other failure by the raise.
EditCircleAfterGet(q, res) ==
    IF res # "ok" THEN [Raise(q, res) EXCEPT !.scoped = "released"]
    ELSE IF ~groups[q.arg].live
         THEN [Finish(Flash(q, "No such circle exists"), "redirect", ".circles")
                  EXCEPT !.scoped = "released"]
    ELSE [Goto(q, "list_users") EXCEPT !.circle = groups[q.arg],
                                       !.scoped = "held"]

EditCircleGet(r) ==
    /\ req[r].route = "edit_circle" /\ req[r].pc = "get_group"
    /\ \E res \in Results :
         req' = [req EXCEPT ![r] =
                    EditCircleAfterGet(
                        [Issued(@, "get_group_by_id")
                            EXCEPT !.via = @ \cup {"get_group_by_id"}], res)]
    /\ UNCHANGED <<backend, session, account>>

\* users = sorted(await client.list_users()); the block ends after it.
EditCircleListUsers(r) ==
    /\ req[r].route = "edit_circle" /\ req[r].pc = "list_users"
    /\ \E res \in Results, order \in Perms(users) :
         LET q == Issued(req[r], "list_users") IN
         req' = [req EXCEPT ![r] =
                    IF res # "ok"
                    THEN [Raise(q, res) EXCEPT !.scoped = "released"]
                    ELSE [Goto(q, "init_choices")
                             EXCEPT !.snap = Items(Sorted(UsersKey(order), FALSE)),
                                    !.scoped = "released"]]
    /\ UNCHANGED <<backend, session, account>>

\* form.user_to_add.choices: the users that are not members of the circle.
ValidUsers(q) ==
    {q.snap[i] : i \in 1..Len(q.snap)} \ q.circle.members

\* EditCircleForm: name is required; user_to_add has validate_choice=False.
EditCircleFormValid(q) == Submitted(q) /\ q.name # 0

EditCircleDispatchAnyUser(q) ==
    IF ~EditCircleFormValid(q)
    THEN Finish(q, "render", "admin_edit_circle.html")
    ELSE IF "action_save" \in q.act THEN Goto(q, "update_group")
    ELSE IF "action_delete" \in q.act THEN Goto(q, "delete_group")
    ELSE IF "action_add_user" \in q.act THEN Goto(q, "add_member")
    ELSE IF q.val # 0 THEN Goto(q, "remove_member")
    ELSE Finish(q, "redirect", ".edit_circle")
EditCircleDispatch(q) ==
    IF ~EditCircleFormValid(q)
    THEN Finish(q, "render", "admin_edit_circle.html")
    ELSE IF "action_save" \in q.act THEN Goto(q, "update_group")
    ELSE IF "action_delete" \in q.act THEN Goto(q, "delete_group")
    ELSE IF "action_add_user" \in q.act
         THEN IF q.user_to_add \in ValidUsers(q) THEN Goto(q, "add_member")
              ELSE Finish(q, "redirect", ".edit_circle")
    ELSE IF q.val # 0 THEN Goto(q, "remove_member")
    ELSE Finish(q, "redirect", ".edit_circle")

\* invite_form.init_choices() lists the groups, then the form is validated.
EditCircleInitChoices(r) ==
    /\ req[r].route = "edit_circle" /\ req[r].pc = "init_choices"
    /\ \E res \in Results :
         LET q == Issued(req[r], "list_groups") IN
         req' = [req EXCEPT ![r] =
                    IF res # "ok" THEN Raise(q, res) ELSE EditCircleDispatch(q)]
    /\ UNCHANGED <<backend, session, account>>

\* What a group call answers for group id: a failure, 404 or done.
GroupOutcome(q, res, done) ==
    IF res # "ok" THEN Raise(q, res)
    ELSE IF ~groups[q.arg].live THEN Raise(q, "NotFound")
    ELSE done

Applies(q, res) == res = "ok" /\ groups[q.arg].live

EditCircleUpdate(r) ==
    /\ req[r].route = "edit_circle" /\ req[r].pc = "update_group"
    /\ \E res \in Results :
         LET q == Issued(req[r], "update_group") IN
         /\ req' = [req EXCEPT ![r] =
                      GroupOutcome(q, res,
                          Finish(Flash(q, "Circle data updated"), "redirect",
                                 ".edit_circle"))]
         /\ groups' = IF Applies(q, res)
                      THEN [groups EXCEPT ![q.arg].name = q.name] ELSE groups
    /\ UNCHANGED <<users, invites, created, session, account>>

EditCircleDelete(r) ==
    /\ req[r].route = "edit_circle" /\ req[r].pc = "delete_group"
    /\ \E res \in Results :
         LET q == Issued(req[r], "delete_group") IN
         /\ req' = [req EXCEPT ![r] =
                      GroupOutcome(q, res,
                          Finish(Flash(q, "Circle deleted"), "redirect",
                                 ".circles"))]
         /\ groups' = IF Applies(q, res)
                      THEN [groups EXCEPT ![q.arg] = NoGroup] ELSE groups
    /\ UNCHANGED <<users, invites, created, session, account>>

\* add_group_member / remove_group_member on the backend: set union and
\* set difference; removing a non-member is no error.
MembersWith(g, u) == groups[g].members \cup {u}
MembersWithout(g, u) == groups[g].members \ {u}

EditCircleAddUser(r) ==
    /\ req[r].route = "edit_circle" /\ req[r].pc = "add_member"
    /\ \E res \in Results :
         LET q == Issued(req[r], "add_group_member") IN
         /\ req' = [req EXCEPT ![r] =
                      GroupOutcome(q, res,
                          Finish(Flash(q, "User added to circle"), "redirect",
                                 ".edit_circle"))]
         /\ groups' = IF Applies(q, res)
                      THEN [groups EXCEPT ![q.arg].members =
                                              MembersWith(q.arg, q.user_to_add)]
                      ELSE groups
    /\ UNCHANGED <<users, invites, created, session, account>>

RemoveMemberCall(q) == Issued(q, "remove_group_member")
RemoveMemberTargetWrongField(q) == q.user_to_add
RemoveMemberTarget(q) == q.val

EditCircleRemoveUser(r) ==
    /\ req[r].route = "edit_circle" /\ req[r].pc = "remove_member"
    /\ \E res \in Results :
         LET q == RemoveMemberCall(req[r]) IN
         /\ req' = [req EXCEPT ![r] =
                      GroupOutcome(q, res,
                          Finish(Flash(q, "User removed from circle"),
                                 "redirect", ".edit_circle"))]
         /\ groups' = IF Applies(q, res)
                      THEN [groups EXCEPT ![q.arg].members =
                                      MembersWithout(q.arg, RemoveMemberTarget(q))]
                      ELSE groups
    /\ UNCHANGED <<users, invites, created, session, account>>

\* The request is cancelled (client disconnect, timeout) while the handler
\* waits on a call: CancelledError is raised at the await and leaves the
\* handler through the exit of whatever block it is in.
CancelEditCircle(r) ==
    /\ req[r].route = "edit_circle" /\ req[r].pc \notin {"idle", "done"}
    /\ req' = [req EXCEPT ![r] = Released(Raise(@, "CancelledError"))]
    /\ UNCHANGED <<backend, session, account>>

\* ------------------------------------------------------------ passwd
\* GET, POST /passwd
BeginChangePw(r) ==
    \E m \in {"GET", "POST"}, c \in BOOLEAN, cur \in {0} \cup Passwords,
       new \in {0} \cup Passwords, conf \in {0} \cup Passwords :
        /\ m = "GET" => (~c /\ cur = 0 /\ new = 0 /\ conf = 0)
        /\ Begin(r, [Idle EXCEPT !.route = "change_pw", !.method = m,
                                 !.csrf = c, !.current = cur, !.new = new,
                                 !.confirm = conf],
                 "validate")

\* ChangePasswordForm: three required fields, the confirmation equal to
\* the new password.
ChangePasswordErrors(q) ==
    (IF q.current = 0 THEN {"current_password"} ELSE {})
    \cup (IF q.new = 0 THEN {"new_password"} ELSE {})
    \cup (IF q.confirm = 0 \/ q.confirm # q.new
          THEN {"new_password_confirm"} ELSE {})

ChangePwDispatch(q) ==
    IF Submitted(q) /\ ChangePasswordErrors(q) = {}
    THEN Goto(q, "change_password")
    ELSE [Finish(q, "render", "user_passwd.html")
             EXCEPT !.errors = IF q.method = "POST"
                               THEN ChangePasswordErrors(q) ELSE {}]

ChangePwValidate(r) ==
    /\ req[r].route = "change_pw" /\ req[r].pc = "validate"
    /\ req' = [req EXCEPT ![r] = ChangePwDispatch(@)]
    /\ UNCHANGED <<backend, session, account>>

\* except (Unauthorized, Forbidden): the error goes to the field and the
\* form is rendered again; else: flash and redirect.
ChangePwRefusedAsSuccess(q) ==
    Finish(Flash(q, "Password changed"), "redirect", "user.change_pw")
ChangePwRefused(q) ==
    [Finish(q, "render", "user_passwd.html")
        EXCEPT !.errors = @ \cup {"current_password"}]

ChangePwAfterCall(q, res) ==
    IF res # "ok" THEN Raise(q, res)
    ELSE IF q.current # account.password THEN ChangePwRefused(q)
    ELSE Finish(Flash(q, "Password changed"), "redirect", "user.change_pw")

ChangePwCall(r) ==
    /\ req[r].route = "change_pw" /\ req[r].pc = "change_password"
    /\ \E res \in Results :
         LET q == Issued(req[r], "change_password") IN
         /\ req' = [req EXCEPT ![r] = ChangePwAfterCall(q, res)]
         /\ account' = IF res = "ok" /\ q.current = account.password
                       THEN [account EXCEPT !.password = q.new] ELSE account
    /\ UNCHANGED <<backend, session>>

\* ----------------------------------------------------------- profile
\* GET, POST /profile
ModelInputs == {"presence", "open", "none"}

BeginProfile(r) ==
    \E m \in {"GET", "POST"}, c \in BOOLEAN, md \in ModelInputs,
       n \in {0, 1}, av \in {"absent", "empty", "data"} :
        /\ m = "GET" => (~c /\ md = "none" /\ n = 0 /\ av = "absent")
        /\ Begin(r, [Idle EXCEPT !.route = "profile", !.method = m,
                                 !.csrf = c, !.model = md, !.nickname = n,
                                 !.avatar = av],
                 "enter")

\* ProfileForm: profile_access_model is one of its choices.
ProfileFormValid(q) == Submitted(q) /\ q.model \in AccessModelChoices

ProfileEnter(r) ==
    /\ req[r].route = "profile" /\ req[r].pc = "enter"
    /\ req' = [req EXCEPT ![r] =
                  IF @.method # "POST" THEN Goto(@, "get_user_info")
                  ELSE IF ProfileFormValid(@) THEN Goto(@, "post_user_info")
                  ELSE Finish(@, "render", "user_profile.html")]
    /\ UNCHANGED <<backend, session, account>>

ProfileGetInfo(r) ==
    /\ req[r].route = "profile" /\ req[r].pc = "get_user_info"
    /\ \E res \in Results :
         LET q == Issued(req[r], "get_user_info") IN
         req' = [req EXCEPT ![r] =
                    IF res # "ok" THEN Raise(q, res)
                    ELSE [Goto(q, "guess_model")
                             EXCEPT !.nickname = account.nickname]]
    /\ UNCHANGED <<backend, session, account>>

\* guessProfileAccessModel: the first facet found defined, nickname, then
\* avatar, then vcard; whitelist when none is.
GuessModel ==
    IF account.facets["nickname"] # "unset" THEN account.facets["nickname"]
    ELSE IF account.facets["avatar"] # "unset" THEN account.facets["avatar"]
    ELSE IF account.facets["vcard"] # "unset" THEN account.facets["vcard"]
    ELSE "whitelist"

ProfileGuess(r) ==
    /\ req[r].route = "profile" /\ req[r].pc = "guess_model"
    /\ \E res \in Results :
         LET q == Issued(req[r], "guess_profile_access_model") IN
         req' = [req EXCEPT ![r] =
                    IF res # "ok" THEN Raise(q, res)
                    ELSE [Finish(q, "render", "user_profile.html")
                             EXCEPT !.model = GuessModel]]
    /\ UNCHANGED <<backend, session, account>>

\* asyncio.gather(set_avatar_access_model, set_vcard_access_model,
\* set_nickname_access_model): the three calls are scheduled together.
StartGather(q) ==
    [Goto(q, "gather") EXCEPT !.tasks = [f \in Facets |-> "pending"]]

ProfileAfterAvatar(q, nick) ==
    IF nick # q.nickname THEN Goto(q, "set_nickname") ELSE StartGather(q)

ProfileAfterInfo(q, nick) ==
    IF q.avatar = "data"
    THEN [Goto(q, "set_avatar") EXCEPT !.snap = <<nick>>]
    ELSE [ProfileAfterAvatar(q, nick) EXCEPT !.snap = <<nick>>]

ProfilePostInfo(r) ==
    /\ req[r].route = "profile" /\ req[r].pc = "post_user_info"
    /\ \E res \in Results :
         LET q == Issued(req[r], "get_user_info") IN
         req' = [req EXCEPT ![r] =
                    IF res # "ok" THEN Raise(q, res)
                    ELSE ProfileAfterInfo(q, account.nickname)]
    /\ UNCHANGED <<backend, session, account>>

ProfileSetAvatar(r) ==
    /\ req[r].route = "profile" /\ req[r].pc = "set_avatar"
    /\ \E res \in Results :
         LET q == Issued(req[r], "set_user_avatar") IN
         /\ req' = [req EXCEPT ![r] =
                      IF res # "ok" THEN Raise(q, res)
                      ELSE ProfileAfterAvatar(q, q.snap[1])]
         /\ account' = IF res = "ok" THEN [account EXCEPT !.avatar = 1]
                       ELSE account
    /\ UNCHANGED <<backend, session>>

ProfileSetNickname(r) ==
    /\ req[r].route = "profile" /\ req[r].pc = "set_nickname"
    /\ \E res \in Results :
         LET q == Issued(req[r], "set_user_nickname") IN
         /\ req' = [req EXCEPT ![r] =
                      IF res # "ok" THEN Raise(q, res) ELSE StartGather(q)]
         /\ account' = IF res = "ok"
                       THEN [account EXCEPT !.nickname = q.nickname]
                       ELSE account
    /\ UNCHANGED <<backend, session>>

FacetCall(f) ==
    IF f = "avatar" THEN "set_avatar_access_model"
    ELSE IF f = "vcard" THEN "set_vcard_access_model"
    ELSE "set_nickname_access_model"

\* One of the three gathered calls completes: the write is applied, or it
\* fails.
FacetWrite(r, f) ==
    /\ req[r].route = "profile" /\ req[r].tasks[f] = "pending"
    /\ \E res \in Results :
         /\ req' = [req EXCEPT ![r] =
                      [Issued(@, FacetCall(f))
                          EXCEPT !.tasks[f] = IF res = "ok" THEN "ok"
                                              ELSE "failed"]]
         /\ account' = IF res = "ok"
                       THEN [account EXCEPT !.facets[f] = req[r].model]
                       ELSE account
    /\ UNCHANGED <<backend, session>>

\* await asyncio.gather(...): the handler resumes with the results when
\* the three calls are done, or with the first exception as soon as one
\* call has failed; the other calls are left running.
GatherFailed(q) == \E f \in Facets : q.tasks[f] = "failed"
GatherDone(q) == \A f \in Facets : q.tasks[f] = "ok"

ProfileAfterGatherCancelling(q) ==
    IF GatherFailed(q)
    THEN [Raise(q, "fault")
             EXCEPT !.tasks = [f \in Facets |->
                                  IF q.tasks[f] = "pending" THEN "none"
                                  ELSE q.tasks[f]]]
    ELSE Finish(Flash(q, "Profile updated"), "redirect", ".profile")
ProfileAfterGatherSwallowed(q) ==
    Finish(Flash(q, "Profile updated"), "redirect", ".profile")
ProfileAfterGather(q) ==
    IF GatherFailed(q) THEN Raise(q, "fault")
    ELSE Finish(Flash(q, "Profile updated"), "redirect", ".profile")

ProfileJoin(r) ==
    /\ req[r].route = "profile" /\ req[r].pc = "gather"
    /\ GatherFailed(req[r]) \/ GatherDone(req[r])
    /\ req' = [req EXCEPT ![r] = ProfileAfterGather(@)]
    /\ UNCHANGED <<backend, session, account>>

\* ------------------------------------------------------------ logout
\* GET, POST /logout
BeginLogout(r) ==
    \E m \in {"GET", "POST"}, c \in BOOLEAN :
        /\ m = "GET" => ~c
        /\ Begin(r, [Idle EXCEPT !.route = "logout", !.method = m, !.csrf = c],
                 "validate")

LogoutDispatch(q) ==
    IF Submitted(q) THEN Goto(q, "logout")
    ELSE Finish(q, "render", "user_logout.html")

LogoutValidate(r) ==
    /\ req[r].route = "logout" /\ req[r].pc = "validate"
    /\ req' = [req EXCEPT ![r] = LogoutDispatch(@)]
    /\ UNCHANGED <<backend, session, account>>

\* client.logout(): the session is invalidated on the server and dropped
\* locally; with no session left there is nothing to do and no error.
LoggedOut == [cookie |-> FALSE, server |-> "none", role |-> "user"]

\* await client.logout(), then the redirect; found tells whether a session
\* was still there to invalidate.
LogoutAfterCallStrict(q, res, found) ==
    IF res # "ok" THEN Raise(q, res)
    ELSE IF ~found THEN Raise(q, "KeyError")
    ELSE [Finish(q, "redirect", "main.index") EXCEPT !.snap = <<found>>]
LogoutAfterCall(q, res, found) ==
    IF res # "ok" THEN Raise(q, res)
    ELSE [Finish(q, "redirect", "main.index") EXCEPT !.snap = <<found>>]

LogoutCall(r) ==
    /\ req[r].route = "logout" /\ req[r].pc = "logout"
    /\ \E res \in Results :
         LET q == Issued(req[r], "logout") IN
         /\ req' = [req EXCEPT ![r] = LogoutAfterCall(q, res, session.cookie)]
         /\ session' = IF res = "ok" THEN LoggedOut ELSE session
    /\ UNCHANGED <<backend, account>>

\* ----------------------------------------------------- the environment
\* login(credentials): a new session of the account's role.
Login(role) ==
    /\ session' = [cookie |-> TRUE, server |-> "valid", role |-> role]
    /\ session' # session
    /\ UNCHANGED <<backend, account, req>>

\* The session's validity window ends.
Expire ==
    /\ session.cookie /\ session.server = "valid"
    /\ session' = [session EXCEPT !.server = "expired"]
    /\ UNCHANGED <<backend, account, req>>

Sessions ==
    {LoggedOut} \cup [cookie : {TRUE}, server : {"valid", "expired"},
                      role : {"user", "admin"}]

InitBackend ==
    /\ users = Localparts
    /\ groups = [g \in GroupIds |-> NoGroup]
    /\ invites = [i \in InviteIds |-> NoInvite]
    /\ created = [groups |-> 0, invites |-> 0]
    /\ account = [password |-> 1, nickname |-> 0, avatar |-> 0,
                  facets |-> [f \in Facets |-> "unset"]]
    /\ req = [r \in Req |-> Idle]
    /\ served = 0

Init == InitBackend /\ session \in Sessions

AdminSession == [cookie |-> TRUE, server |-> "valid", role |-> "admin"]
InitAdmin == InitBackend /\ session = AdminSession

UsersBegin(r) == BeginUsers(r) \/ BeginDeleteUser(r) \/ BeginDebugUser(r)
UsersSteps(r) ==
    \/ UsersList(r) \/ DeleteUserGet(r) \/ DeleteUserDelete(r)
    \/ DebugUserGet(r) \/ DebugUserInfo(r)

CirclesBegin(r) == BeginCircles(r) \/ BeginCreateCircle(r) \/ BeginEditCircle(r)
CirclesSteps(r) ==
    \/ CirclesList(r) \/ CreateCircleValidate(r) \/ CreateCircleCreate(r)
    \/ EditCircleGet(r) \/ EditCircleListUsers(r) \/ EditCircleInitChoices(r)
    \/ EditCircleUpdate(r) \/ EditCircleDelete(r) \/ EditCircleAddUser(r)
    \/ EditCircleRemoveUser(r)

InvitesBegin(r) ==
    \/ BeginInvitations(r) \/ BeginCreateInvite(r) \/ BeginEditInvite(r)
    \/ BeginPasswordReset(r)
InvitesSteps(r) ==
    \/ InvitationsListInvites(r) \/ InvitationsListGroups(r)
    \/ InvitationsRevoke(r)
    \/ CreateInviteListGroups(r) \/ CreateInviteCreate(r)
    \/ EditInviteGet(r) \/ EditInviteListGroups(r) \/ EditInviteRevoke(r)
    \/ PasswordResetValidate(r) \/ PasswordResetGetUser(r)
    \/ PasswordResetCreate(r) \/ PasswordResetRevoke(r)

SessionSteps ==
    \/ \E role \in {"user", "admin"} : Login(role)
    \/ Expire

\* The whole admin blueprint behind its guard, one request at a time, for
\* every session a caller can hold, in runs of at most MaxServed requests.
Next ==
    \/ /\ served < MaxServed
       /\ served' = served + 1
       /\ \E r \in {1} : UsersBegin(r) \/ CirclesBegin(r) \/ InvitesBegin(r)
    \/ /\ UNCHANGED served
       /\ \/ \E r \in {1} : \/ UsersSteps(r) \/ CirclesSteps(r)
                           \/ InvitesSteps(r) \/ Recycle(r)
          \/ SessionSteps

Spec == Init /\ [][Next]_vars

\* The user and circle routes of an admin, one request at a time.
NextCircles ==
    /\ UNCHANGED served
    /\ \E r \in {1} : \/ UsersBegin(r) \/ UsersSteps(r)
                      \/ CirclesBegin(r) \/ CirclesSteps(r) \/ Recycle(r)

SpecCircles == InitAdmin /\ [][NextCircles]_vars

\* The invite routes of an admin, one request at a time; circles are
\* created for the invites to name.
NextInvites ==
    /\ UNCHANGED served
    /\ \E r \in {1} : \/ InvitesBegin(r) \/ InvitesSteps(r)
                      \/ BeginCreateCircle(r) \/ CreateCircleValidate(r)
                      \/ CreateCircleCreate(r) \/ Recycle(r)

SpecInvites == InitAdmin /\ [][NextInvites]_vars

\* The profile route of a logged-in account, one request at a time.
NextProfile ==
    /\ UNCHANGED served
    /\ \E r \in {1} :
          \/ BeginProfile(r) \/ ProfileEnter(r) \/ ProfileGetInfo(r)
          \/ ProfileGuess(r) \/ ProfilePostInfo(r) \/ ProfileSetAvatar(r)
          \/ ProfileSetNickname(r) \/ ProfileJoin(r)
          \/ (\E f \in Facets : FacetWrite(r, f))
          \/ Recycle(r)

SpecProfile == InitAdmin /\ [][NextProfile]_vars

\* Password change, one request at a time, with the caller's sessions
\* coming and going.
NextPasswd ==
    /\ UNCHANGED served
    /\ \/ \E r \in {1} : \/ BeginChangePw(r) \/ ChangePwValidate(r)
                         \/ ChangePwCall(r) \/ Recycle(r)
       \/ SessionSteps

SpecPasswd == Init /\ [][NextPasswd]_vars

\* Logout, requests interleaving, with the caller's sessions coming and
\* going.
NextLogout ==
    /\ UNCHANGED served
    /\ \/ \E r \in Req : \/ BeginLogout(r) \/ LogoutValidate(r)
                         \/ LogoutCall(r) \/ Recycle(r)
       \/ SessionSteps

SpecLogout == Init /\ [][NextLogout]_vars

\* The circle pages, with requests that may be cancelled.
NextEditCircle ==
    /\ UNCHANGED served
    /\ \E r \in {1} :
          \/ BeginCreateCircle(r) \/ CreateCircleValidate(r)
          \/ CreateCircleCreate(r)
          \/ BeginEditCircle(r) \/ EditCircleGet(r) \/ EditCircleListUsers(r)
          \/ EditCircleInitChoices(r) \/ EditCircleUpdate(r)
          \/ EditCircleDelete(r) \/ EditCircleAddUser(r)
          \/ EditCircleRemoveUser(r) \/ CancelEditCircle(r)
          \/ Recycle(r)

SpecEditCircle == InitAdmin /\ [][NextEditCircle]_vars

\* The same with the event loop's scheduling: a handler that waits on a
\* call is resumed when the call is answered, and every call is answered,
\* by its result, its error or its timeout.
EditCircleSteps(r) ==
    \/ EditCircleGet(r) \/ EditCircleListUsers(r) \/ EditCircleInitChoices(r)
    \/ EditCircleUpdate(r) \/ EditCircleDelete(r) \/ EditCircleAddUser(r)
    \/ EditCircleRemoveUser(r)

EditCircleProgress == UNCHANGED served /\ \E r \in {1} : EditCircleSteps(r)

SpecEditCircleFair == SpecEditCircle /\ WF_vars(EditCircleProgress)

\* Concurrent admin requests on the members of a circle: the circle pages
\* and delete_user in MaxReq requests at a time, in runs of at most
\* MaxServed requests, from a backend that holds one circle.
InitRace ==
    /\ users = Localparts
    /\ groups = [g \in GroupIds |->
                    IF g = 1 THEN [live |-> TRUE, name |-> 1, members |-> {}]
                    ELSE NoGroup]
    /\ invites = [i \in InviteIds |-> NoInvite]
    /\ created = [groups |-> 1, invites |-> 0]
    /\ account = [password |-> 1, nickname |-> 0, avatar |-> 0,
                  facets |-> [f \in Facets |-> "unset"]]
    /\ req = [r \in Req |-> Idle]
    /\ session = AdminSession
    /\ served = 0

NextRace ==
    \/ /\ served < MaxServed
       /\ served' = served + 1
       /\ \E r \in Req : BeginEditCircle(r) \/ BeginDeleteUser(r)
    \/ /\ UNCHANGED served
       /\ \E r \in Req :
             \/ EditCircleGet(r) \/ EditCircleListUsers(r)
             \/ EditCircleInitChoices(r) \/ EditCircleUpdate(r)
             \/ EditCircleDelete(r) \/ EditCircleAddUser(r)
             \/ EditCircleRemoveUser(r)
             \/ DeleteUserGet(r) \/ DeleteUserDelete(r)
             \/ Recycle(r)

SpecRace == InitRace /\ [][NextRace]_vars

\* The three listings over every backend content within the bounds.
ListedInvites ==
    {NoInvite} \cup
    [live : {TRUE}, kind : {"account", "group", "password-reset"},
     ttl : {OneDay}, groups : {<<>>}, created_at : 1..MaxInvites,
     localpart : {0}]
ListedGroups ==
    {NoGroup} \cup [live : {TRUE}, name : Names, members : {{}}]

InitList ==
    /\ users \in SUBSET Localparts
    /\ groups \in [GroupIds -> ListedGroups]
    /\ invites \in [InviteIds -> ListedInvites]
    /\ created = [groups |-> MaxGroups, invites |-> MaxInvites]
    /\ account = [password |-> 1, nickname |-> 0, avatar |-> 0,
                  facets |-> [f \in Facets |-> "unset"]]
    /\ req = [r \in Req |-> Idle]
    /\ session = AdminSession
    /\ served = 0

NextList ==
    /\ UNCHANGED served
    /\ \E r \in {1} :
          \/ BeginUsers(r) \/ UsersList(r)
          \/ BeginCircles(r) \/ CirclesList(r)
          \/ BeginInvitations(r) \/ InvitationsListInvites(r)
          \/ InvitationsListGroups(r) \/ InvitationsRevoke(r)
          \/ Recycle(r)

SpecList == InitList /\ [][NextList]_vars

\* ============================================================ claims

\* C1: on every admin route the guard answers Forbidden to a valid session
\* of role user and Unauthenticated to a missing or expired session; a
\* request the guard turned away runs no part of its handler, and every
\* remote call of an admin route was issued for a request that presented a
\* valid admin session.
C1_AdminGuard ==
    \A r \in Req :
        LET q == req[r] IN
        q.route \in AdminRoutes =>
            /\ (q.cred.cookie /\ q.cred.server = "valid" /\ q.cred.role = "user")
                   => q.guard = "Forbidden"
            /\ (~q.cred.cookie \/ q.cred.server # "valid")
                   => q.guard = "Unauthenticated"
            /\ q.guard = "Forbidden" => (q.outcome = "abort" /\ q.view = "403")
            /\ q.guard = "Unauthenticated"
                   => (q.outcome = "redirect" /\ q.view = "login")
            /\ q.guard # "ok"
                   => (q.pc = "done" /\ q.calls = <<>> /\ q.scoped = "none")
            /\ (q.calls # <<>> \/ q.guard = "ok") => q.cred = AdminSession

C1_Witness ==
    \E r \in Req :
        /\ req[r].route = "edit_circle" /\ req[r].method = "POST"
        /\ req[r].cred.cookie /\ req[r].cred.server = "valid"
        /\ req[r].cred.role = "user"
        /\ req[r].guard = "Forbidden" /\ req[r].pc = "done"
        /\ \E g \in GroupIds : groups[g].live

\* C2: a remove-member request that reaches the backend for a live circle
\* with members M and a localpart x ends without an error unless the call
\* itself failed, and leaves the members M \ {x}: M itself when x is no
\* member (so also for the second of two removals in a row); no other
\* circle changes.
C2_RemoveNonMember ==
    [][\A r \in Req :
          (req[r].pc = "remove_member" /\ req'[r].pc = "done") =>
              LET q == req[r]
                  p == req'[r]
                  M == groups[q.arg].members
              IN
              IF p.outcome = "raise"
              THEN /\ groups' = groups
                   /\ \/ p.view \in Faults
                      \/ p.view = "NotFound" /\ ~groups[q.arg].live
              ELSE /\ p.outcome = "redirect" /\ p.view = ".edit_circle"
                   /\ "User removed from circle" \in p.flashes
                   /\ groups'[q.arg].members = M \ {q.val}
                   /\ q.val \notin M => groups' = groups
                   /\ \A h \in GroupIds \ {q.arg} : groups'[h] = groups[h]
      ]_vars

C2_Witness ==
    \E r \in Req :
        LET q == req[r] IN
        /\ q.route = "edit_circle" /\ q.pc = "done"
        /\ LastCall(q) = "remove_group_member" /\ q.outcome = "redirect"
        /\ "User removed from circle" \in q.flashes
        /\ q.circle.members # {} /\ q.val \notin q.circle.members
        /\ groups[q.arg].members = q.circle.members

\* C3 as stated: a request to create a group invite with no circle issues
\* no remote call at all.
C3_NoRemoteCallAtAll ==
    \A r \in Req :
        (req[r].route = "create_invite" /\ req[r].type_ = "group"
         /\ req[r].circles = <<>>) => req[r].calls = <<>>

\* C3: a request to create a group invite with no circle never issues an
\* invite-creating call and creates no invite; its one remote call is the
\* list_groups read that fills the form's choices before the form is
\* validated, and unless that read fails the form is rendered again with
\* an error on the circles field.
C3_NoCreateCall ==
    \A r \in Req :
        LET q == req[r] IN
        (q.route = "create_invite" /\ q.type_ = "group" /\ q.circles = <<>>) =>
            /\ Len(q.calls) <= 1
            /\ \A i \in 1..Len(q.calls) : q.calls[i] = "list_groups"
            /\ q.link = 0 /\ q.flashes = {}
            /\ (q.pc = "done" /\ q.outcome # "raise") =>
                   /\ q.outcome = "render"
                   /\ q.view = "admin_create_invite.html"
                   /\ "circles" \in q.errors

C3_Witness ==
    \E r \in Req :
        LET q == req[r] IN
        /\ q.route = "create_invite" /\ q.type_ = "group" /\ q.circles = <<>>
        /\ q.lifetime = OneDay /\ q.csrf /\ q.pc = "done"
        /\ q.outcome = "render" /\ q.errors = {"circles"}
        /\ q.calls = <<"list_groups">>
        /\ invites = [i \in InviteIds |-> NoInvite]

\* C4: no request that revokes an invite ends with the backend's NotFound
\* leaving the handler as an exception.
C4_RevokeBenign ==
    \A r \in Req :
        LET q == req[r] IN
        (q.route \in {"invitations", "edit_invite", "create_password_reset_link"}
         /\ q.pc = "done" /\ LastCall(q) = "delete_invite")
            => ~(q.outcome = "raise" /\ q.view = "NotFound")

\* C5: when the avatar-facet write of a profile request has failed, the
\* nickname and vcard writes that succeeded stay applied with the request's
\* model, no facet is written a second time, and the request ends with the
\* failure, never with the success message.
C5_PartialApplication ==
    \A r \in Req :
        LET q == req[r] IN
        (q.route = "profile" /\ q.tasks["avatar"] = "failed") =>
            /\ q.pc \in {"gather", "done"}
            /\ \A f \in {"nickname", "vcard"} :
                   q.tasks[f] = "ok" => account.facets[f] = q.model
            /\ \A f \in Facets : Times(q, FacetCall(f)) <= 1
            /\ q.pc = "done" =>
                   /\ q.outcome = "raise"
                   /\ "Profile updated" \notin q.flashes

C5_Witness ==
    \E r \in Req :
        LET q == req[r] IN
        /\ q.route = "profile" /\ q.model = "open" /\ q.pc = "done"
        /\ q.tasks = [f \in Facets |-> IF f = "avatar" THEN "failed" ELSE "ok"]
        /\ account.facets["nickname"] = "open"
        /\ account.facets["vcard"] = "open"
        /\ account.facets["avatar"] # "open"
        /\ q.outcome = "raise"

RefUsers == CHOOSE p \in Perms(users) :
                \A i \in 1..Len(p) - 1 : p[i] < p[i + 1]
RefCircles ==
    LET ids == CHOOSE p \in Perms(LiveGroups) :
                   \A i \in 1..Len(p) - 1 :
                       \/ groups[p[i]].name < groups[p[i + 1]].name
                       \/ /\ groups[p[i]].name = groups[p[i + 1]].name
                          /\ p[i] < p[i + 1]
    IN [i \in 1..Len(ids) |-> GroupInfo(ids[i])]
ListedIds == {i \in LiveInvites : invites[i].kind # "password-reset"}
RefInvitations ==
    LET ids == CHOOSE p \in Perms(ListedIds) :
                   \A i \in 1..Len(p) - 1 :
                       \/ invites[p[i]].created_at > invites[p[i + 1]].created_at
                       \/ /\ invites[p[i]].created_at = invites[p[i + 1]].created_at
                          /\ p[i] < p[i + 1]
    IN [i \in 1..Len(ids) |-> InviteInfo(ids[i])]

UsersListed(q) == q.route = "users" /\ q.pc = "done" /\ q.outcome = "render"
CirclesListed(q) == q.route = "circles" /\ q.pc = "done" /\ q.outcome = "render"
InvitationsListed(q) ==
    q.route = "invitations" /\ q.pc = "list_groups"
    /\ q.calls = <<"list_invites">>

\* C7 as stated: whatever order the backend answers in, each listing is
\* one and the same sequence, the reference filter-and-sort.
C7_SameSequenceForEveryOrder ==
    \A r \in Req :
        LET q == req[r] IN
        /\ UsersListed(q) => q.snap = RefUsers
        /\ CirclesListed(q) => q.snap = RefCircles
        /\ InvitationsListed(q) => q.snap = RefInvitations

\* C7: whatever order the backend answers in, the users listing is the
\* directory in ascending localpart order, the circles listing holds each
\* circle once in ascending name order, and the invitations listing holds
\* each invite that is not a password reset once, newest first; the keys
\* of each listing are those of the reference filter-and-sort, and only
\* records of equal key may stand in another order than there.
C7_Listings ==
    \A r \in Req :
        LET q == req[r]
            n == Len(q.snap)
        IN
        /\ UsersListed(q) => q.snap = RefUsers
        /\ CirclesListed(q) =>
               /\ n = Cardinality(LiveGroups)
               /\ {q.snap[i] : i \in 1..n} = {GroupInfo(g) : g \in LiveGroups}
               /\ \A i \in 1..n - 1 : q.snap[i].name <= q.snap[i + 1].name
               /\ \A i \in 1..n : q.snap[i].name = RefCircles[i].name
        /\ InvitationsListed(q) =>
               /\ n = Cardinality(ListedIds)
               /\ {q.snap[i] : i \in 1..n} = {InviteInfo(j) : j \in ListedIds}
               /\ \A i \in 1..n - 1 :
                      q.snap[i].created_at >= q.snap[i + 1].created_at
               /\ \A i \in 1..n :
                      q.snap[i].created_at = RefInvitations[i].created_at

C7_Witness ==
    \E r \in Req :
        LET q == req[r] IN
        /\ InvitationsListed(q) /\ Len(q.snap) = 1
        /\ Cardinality(LiveInvites) = 2
        /\ \E i \in LiveInvites :
               /\ invites[i].kind = "password-reset"
               /\ invites[i].created_at > q.snap[1].created_at

\* C8: a logout request never ends in an error of its own: when its call
\* to client.logout() is answered, the session is gone on the server and
\* locally and the request redirects to the main page, also when the
\* session was already invalidated before the call; without a session the
\* guard sends the request to the login page.
C8_LogoutIdempotent ==
    [][\A r \in Req :
          LET q == req'[r] IN
          q.route = "logout" =>
              /\ q.outcome = "raise" => q.view \in Faults
              /\ q.guard = "Unauthenticated" =>
                     (q.outcome = "redirect" /\ q.view = "login")
              /\ (req[r].pc = "logout" /\ q.pc = "done"
                  /\ q.outcome # "raise") =>
                     /\ ~session'.cookie /\ session'.server = "none"
                     /\ q.outcome = "redirect" /\ q.view = "main.index"
      ]_vars

C8_Witness ==
    \E r \in Req :
        LET q == req[r] IN
        /\ q.route = "logout" /\ q.pc = "done"
        /\ q.calls = <<"logout">> /\ q.snap = <<FALSE>>
        /\ q.outcome = "redirect" /\ q.view = "main.index"
        /\ session = LoggedOut

\* C9: every step of a delete_user request for a localpart that is not in
\* the directory ends the request with an exception, the backend's NotFound
\* unless the call itself failed, and deletes nothing; when the user is
\* already absent at the request's read, no delete call is issued.
C9_DeleteAbsentUser ==
    [][\A r \in Req :
          (req[r].route = "delete_user"
           /\ req[r].pc \in {"get_user", "delete_user"}
           /\ req[r].arg \notin users /\ req'[r] # req[r]) =>
              /\ req'[r].pc = "done" /\ req'[r].outcome = "raise"
              /\ req'[r].view \in {"NotFound"} \cup Faults
              /\ users' = users
              /\ req[r].pc = "get_user" =>
                     ~Called(req'[r], "delete_user_by_localpart")
      ]_vars

C9_Witness ==
    \E r \in Req :
        LET q == req[r] IN
        /\ q.route = "delete_user" /\ q.method = "POST" /\ q.csrf
        /\ "action_delete" \in q.act /\ q.arg \notin users
        /\ q.pc = "done" /\ q.outcome = "raise" /\ q.view = "NotFound"
        /\ q.calls = <<"get_user_by_localpart">>

\* C10: when change_password is called with a current password that does
\* not match, the request ends, unless the call itself failed, by rendering
\* the password form again with an error on the current-password field: no
\* redirect, no success message; the password and the session are as they
\* were.
C10_WrongCurrentPassword ==
    [][\A r \in Req :
          (req[r].pc = "change_password"
           /\ req[r].current # account.password /\ req'[r].pc = "done") =>
              LET q == req'[r] IN
              /\ account' = account /\ session' = session
              /\ \/ q.outcome = "raise" /\ q.view \in Faults
                 \/ /\ q.outcome = "render" /\ q.view = "user_passwd.html"
                    /\ "current_password" \in q.errors
                    /\ q.flashes = {}
      ]_vars

C10_Witness ==
    \E r \in Req :
        LET q == req[r] IN
        /\ q.route = "change_pw" /\ q.pc = "done"
        /\ q.calls = <<"change_password">>
        /\ q.current # account.password
        /\ q.outcome = "render" /\ q.errors = {"current_password"}
        /\ session = q.cred /\ session.server = "valid"

\* C11: the guard of a route has exactly three outcomes.  With a valid
\* session of the route's role the handler runs with that session bound; on
\* Unauthenticated the request is redirected to the login page with the
\* requested path kept, and on Forbidden it ends with a 403 and no
\* redirect; in both the handler has not run: no call, no message, no
\* form error.
C11_GuardOutcomes ==
    \A r \in Req :
        LET q == req[r]
            res == CurrentSession(q.cred, IF q.route \in AdminRoutes
                                          THEN "admin" ELSE "user")
        IN
        q.pc # "idle" =>
            /\ q.guard = res
            /\ q.guard = "ok" =>
                   /\ q.cred.cookie /\ q.cred.server = "valid"
                   /\ q.route \in AdminRoutes => q.cred.role = "admin"
                   /\ q.next = "none"
            /\ q.guard = "Unauthenticated" =>
                   /\ q.pc = "done" /\ q.outcome = "redirect"
                   /\ q.view = "login" /\ q.next = q.route
                   /\ q.calls = <<>> /\ q.flashes = {} /\ q.errors = {}
            /\ q.guard = "Forbidden" =>
                   /\ q.pc = "done" /\ q.outcome = "abort" /\ q.view = "403"
                   /\ q.next = "none"
                   /\ q.calls = <<>> /\ q.flashes = {} /\ q.errors = {}

C11_Witness ==
    \E r \in Req :
        LET q == req[r] IN
        /\ q.route = "edit_circle" /\ q.guard = "Forbidden"
        /\ q.cred.server = "valid" /\ q.cred.role = "user"
        /\ q.outcome = "abort" /\ q.calls = <<>>
        /\ served = MaxServed

\* The calls of edit_circle's read-then-mutate sequence.
ReadThenMutate == {"get_group_by_id", "list_users", "add_group_member",
                   "remove_group_member"}

\* C12: in edit_circle the circle fetch, the directory read and the
\* membership mutation are each issued while the scoped session is held,
\* and each of them uses that session.
C12_WholeSequenceScoped ==
    [][\A r \in Req :
          (req'[r].route = "edit_circle"
           /\ Len(req'[r].calls) = Len(req[r].calls) + 1
           /\ LastCall(req'[r]) \in ReadThenMutate) =>
              /\ req[r].scoped = "held"
              /\ LastCall(req'[r]) \in req'[r].via
      ]_vars

\* C13: a validated add-member request whose localpart is not among the
\* non-member candidates of the request's own reads ends with a validation
\* error on user_to_add shown to the caller and has issued no
\* add_group_member call; with a candidate, exactly one such call is
\* issued.
C13_AddMemberValidated ==
    \A r \in Req :
        LET q == req[r] IN
        (q.route = "edit_circle" /\ q.pc = "done" /\ q.outcome # "raise"
         /\ EditCircleFormValid(q) /\ "action_add_user" \in q.act
         /\ Called(q, "list_groups")) =>
            IF q.user_to_add \in ValidUsers(q)
            THEN Times(q, "add_group_member") = 1
            ELSE /\ Times(q, "add_group_member") = 0
                 /\ "user_to_add" \in q.errors
                 /\ q.outcome = "render"

\* Every member of every circle is in the user directory.
MembersInDirectory == \A g \in GroupIds : groups[g].members \subseteq users

\* C14 as stated: under any interleaving of concurrent admin requests,
\* the membership of a circle never holds a localpart that is not in the
\* user directory.
C14_MembersAlwaysInDirectory == MembersInDirectory

\* C14: every membership decision is made against the request's own
\* reads.  The only step that puts a localpart outside the directory into
\* a circle is the add_group_member of a request whose directory read
\* still listed that user and whose user was deleted between that read and
\* the write; delete_user and every other step keep the members within
\* the directory.
C14_OnlyTheStaleAdd ==
    [][(MembersInDirectory /\ ~MembersInDirectory') =>
          \E r \in Req :
              LET q == req[r] IN
              /\ q.route = "edit_circle" /\ q.pc = "add_member"
              /\ req'[r].pc = "done"
              /\ LastCall(req'[r]) = "add_group_member"
              /\ q.user_to_add \in ValidUsers(q)
              /\ q.user_to_add \notin users
              /\ users' = users
              /\ groups'[q.arg].members = groups[q.arg].members
                                              \cup {q.user_to_add}
      ]_vars

C14_Witness ==
    \E r \in Req :
        LET q == req[r] IN
        /\ q.route = "edit_circle" /\ q.pc = "done"
        /\ "User added to circle" \in q.flashes
        /\ q.user_to_add \in ValidUsers(q)
        /\ q.user_to_add \notin users
        /\ q.user_to_add \in groups[q.arg].members

\* C15 as stated: the gathered operation finishes only after all three
\* facet writes have completed: no write is pending once the request has
\* ended.
C15_FinishesAfterAllCompleted ==
    \A r \in Req :
        LET q == req[r] IN
        (q.route = "profile" /\ q.pc = "done") =>
            \A f \in Facets : q.tasks[f] # "pending"

\* C15: the three facet writes are started together and none is ever
\* cancelled: a started write stays pending until it completes, also after
\* a sibling has failed and after the request has ended, and a write that
\* completes late is still applied.  The request leaves the gather with the
\* success message when all three have succeeded, and with the first
\* failure as soon as one has failed, whatever the siblings' state.
C15_NoSiblingCancelled ==
    [][\A r \in Req :
          req[r].route = "profile" =>
              /\ \A f \in Facets :
                     /\ req[r].tasks[f] = "pending" =>
                            \/ req'[r].tasks[f] \in {"pending", "ok", "failed"}
                            \/ /\ req'[r].pc = "idle"
                               /\ \A g \in Facets : req[r].tasks[g] # "pending"
                     /\ (req[r].tasks[f] = "pending" /\ req'[r].tasks[f] = "ok") =>
                            account'.facets[f] = req[r].model
              /\ (req[r].pc = "gather" /\ req'[r].pc = "done") =>
                     /\ req'[r].tasks = req[r].tasks
                     /\ IF GatherFailed(req[r])
                        THEN req'[r].outcome = "raise"
                        ELSE /\ GatherDone(req[r])
                             /\ req'[r].outcome = "redirect"
                             /\ "Profile updated" \in req'[r].flashes
      ]_vars

C15_Witness ==
    \E r \in Req :
        LET q == req[r] IN
        /\ q.route = "profile" /\ q.pc = "done" /\ q.outcome = "raise"
        /\ q.tasks["vcard"] = "failed"
        /\ q.tasks["avatar"] = "ok" /\ account.facets["avatar"] = q.model
        /\ q.tasks["nickname"] = "pending"

\* C16: a request of edit_invite or edit_circle whose initial read has
\* not returned its invite or circle has ended there, with that one call
\* and nothing after it: by the redirect of the handled 404 or by the
\* error itself leaving the handler.
C16_FailedReadIsFatal ==
    \A r \in Req :
        LET q == req[r]
            ended == /\ q.pc = "done" /\ Len(q.calls) = 1
                     /\ \/ q.outcome = "raise" /\ q.view \in Faults
                        \/ q.outcome = "redirect"
        IN
        /\ (q.route = "edit_invite" /\ q.guard = "ok"
            /\ q.pc # "get_invite" /\ "invite_info" \notin q.bound) => ended
        /\ (q.route = "edit_circle" /\ q.guard = "ok"
            /\ q.pc # "get_group" /\ q.circle = NoGroup
            /\ q.view # "CancelledError") => ended

\* C17: the scoped session of edit_circle is held only inside the block
\* of its two reads; a request that has ended, normally, by the redirect
\* of a 404, by a raised error or by cancellation, holds no session; and
\* a session that is held is eventually released.
C17_ScopedSessionReleased ==
    /\ [](\A r \in Req :
              /\ req[r].scoped = "held" =>
                     /\ req[r].route = "edit_circle"
                     /\ req[r].pc \in {"get_group", "list_users"}
              /\ req[r].pc = "done" => req[r].scoped # "held"
              /\ (req[r].route = "edit_circle" /\ req[r].guard = "ok"
                  /\ req[r].pc \notin {"get_group", "list_users"}) =>
                     req[r].scoped = "released")
    /\ \A r \in Req : (req[r].scoped = "held") ~> (req[r].scoped = "released")

C17_Witness ==
    \E r \in Req :
        LET q == req[r] IN
        /\ q.route = "edit_circle" /\ q.pc = "done"
        /\ q.outcome = "raise" /\ q.view = "CancelledError"
        /\ q.calls = <<"get_group_by_id">>
        /\ q.circle # NoGroup
        /\ q.scoped = "released"

CreatingCalls == {"create_account_invite", "create_group_invite",
                  "create_password_reset_invite", "create_group"}

\* C18: no creating call is retried.  A request issues each of
\* create_account_invite, create_group_invite,
\* create_password_reset_invite and create_group at most once, and at most
\* one of them; the call is the request's last, also when it fails or
\* times out, and a failed call has created nothing.
C18_NoRetry ==
    [][\A r \in Req :
          LET q == req'[r] IN
          /\ \A c \in CreatingCalls : Times(q, c) <= 1
          /\ Cardinality({c \in CreatingCalls : Called(q, c)}) <= 1
          /\ (\E c \in CreatingCalls : Called(q, c)) =>
                 /\ LastCall(q) \in CreatingCalls
                 /\ q.pc = "done"
          /\ (Len(q.calls) = Len(req[r].calls) + 1
              /\ LastCall(q) \in CreatingCalls /\ q.outcome = "raise") =>
                 /\ q.view \in Faults
                 /\ created' = created /\ invites' = invites
                 /\ groups' = groups
      ]_vars

C18_Witness ==
    \E r \in Req :
        LET q == req[r] IN
        /\ q.route = "create_invite" /\ q.pc = "done"
        /\ q.outcome = "raise" /\ q.view = "transport"
        /\ Times(q, "create_account_invite") = 1
        /\ LastCall(q) = "create_account_invite"
        /\ created.invites = 0

MutatingCalls ==
    CreatingCalls \cup
    {"delete_user_by_localpart", "delete_invite", "update_group",
     "delete_group", "add_group_member", "remove_group_member",
     "change_password", "set_user_avatar", "set_user_nickname",
     "set_avatar_access_model", "set_vcard_access_model",
     "set_nickname_access_model", "logout"}

\* validate_on_submit has succeeded for the request's form.
Validated(q) ==
    /\ Submitted(q)
    /\ q.route = "edit_circle" => EditCircleFormValid(q)
    /\ q.route = "change_pw" => ChangePasswordErrors(q) = {}
    /\ q.route = "profile" => ProfileFormValid(q)

\* The handler's read of its target has returned the target.
TargetRead(q) ==
    /\ q.route = "delete_user" => "target_user_info" \in q.bound
    /\ q.route = "edit_invite" => "invite_info" \in q.bound
    /\ q.route = "edit_circle" => q.circle # NoGroup

\* C19: in delete_user, invitations, edit_invite, edit_circle, change_pw,
\* profile and logout a request has issued a mutating call only as a
\* validated form submission, and in delete_user, edit_invite and
\* edit_circle only after its read of the target has succeeded.
C19_MutationsOnlyValidated ==
    \A r \in Req :
        LET q == req[r] IN
        (q.route \in {"delete_user", "invitations", "edit_invite",
                      "edit_circle", "change_pw", "profile", "logout"}
         /\ \E c \in MutatingCalls : Called(q, c)) =>
            Validated(q) /\ TargetRead(q)

\* C20: a validated POST to create_password_reset_link that ends without
\* a failed remote call has one of two outcomes: with action_create, the
\* user was fetched, one password-reset invite with ttl 86400 was created
\* for it and the page is rendered with that user and link; with
\* action_revoke, the invite was deleted and the request redirects to the
\* user list.  The page is never rendered without both.
C20_TwoDefinedOutcomes ==
    \A r \in Req :
        LET q == req[r] IN
        (q.route = "create_password_reset_link" /\ q.guard = "ok"
         /\ Submitted(q) /\ q.pc = "done"
         /\ ~(q.outcome = "raise" /\ q.view \in Faults \cup {"NotFound"})) =>
            \/ /\ "action_create" \in q.act
               /\ q.calls = <<"get_user_by_localpart",
                              "create_password_reset_invite">>
               /\ q.outcome = "render"
               /\ {"target_user_info", "reset_link"} \subseteq q.bound
               /\ q.link \in InviteIds
               /\ invites[q.link].kind = "password-reset"
               /\ invites[q.link].ttl = 86400
               /\ invites[q.link].localpart = q.val
            \/ /\ "action_create" \notin q.act /\ "action_revoke" \in q.act
               /\ q.calls = <<"delete_invite">>
               /\ q.outcome = "redirect" /\ q.view = ".users"
               /\ ~invites[q.val].live
====
